---- MODULE Spec2Model ----
(***************************************************************************)
(* Model of trading_bot.py: the file-backed simulated exchange client      *)
(* (MockFuturesBot), the client factory (build_bot) and the position       *)
(* sizing calculator (calculate_position_size).                            *)
(*                                                                         *)
(* Python floats are IEEE-754 binary64 values and the two JSON files hold  *)
(* decimal text.  Both are modelled exactly: a float is sign, 53-bit       *)
(* mantissa and binary exponent; the arithmetic rounds to nearest, ties to *)
(* even; json.load parses decimal text to the nearest float; round_dec     *)
(* truncates the exact binary expansion of its argument.  Mantissas do not *)
(* fit TLC's 32-bit integers, so natural numbers are sequences of limbs.   *)
(***************************************************************************)
EXTENDS Integers, Sequences, FiniteSets, TLC

-----------------------------------------------------------------------------
(* Natural numbers of any size: little-endian sequences of limbs in        *)
(* 0..Base-1, without leading zero limbs; zero is the empty sequence.      *)

Base == 2^15

LimbBits == CHOOSE k \in 1..30 : 2^k = Base

Min(a, b) == IF a < b THEN a ELSE b

MaxOf(S) == CHOOSE x \in S : \A y \in S : y <= x

\* the number of bits of a limb
BitsOf(n) == Cardinality({k \in 0..(LimbBits - 1) : 2^k <= n})

\* without the leading zero limbs
Norm(a) ==
    LET nz == {i \in DOMAIN a : a[i] # 0}
    IN  IF nz = {} THEN <<>> ELSE SubSeq(a, 1, MaxOf(nz))

Limb(a, i) == IF 1 <= i /\ i <= Len(a) THEN a[i] ELSE 0

\* a TLC integer, 0 <= n < 2^31, has at most three limbs
FromInt(n) == Norm(<<n % Base, (n \div Base) % Base, n \div (Base * Base)>>)

RECURSIVE AddFrom(_, _, _, _)
AddFrom(a, b, i, c) ==
    IF i > Len(a) /\ i > Len(b)
    THEN (IF c = 0 THEN <<>> ELSE <<c>>)
    ELSE LET s == Limb(a, i) + Limb(b, i) + c
         IN  <<s % Base>> \o AddFrom(a, b, i + 1, s \div Base)

Add(a, b) == AddFrom(a, b, 1, 0)

\* a - b for a >= b
RECURSIVE SubFrom(_, _, _, _)
SubFrom(a, b, i, c) ==
    IF i > Len(a) THEN <<>>
    ELSE LET s == a[i] - Limb(b, i) - c
         IN  IF s < 0 THEN <<s + Base>> \o SubFrom(a, b, i + 1, 1)
                      ELSE <<s>> \o SubFrom(a, b, i + 1, 0)

Sub(a, b) == Norm(SubFrom(a, b, 1, 0))

\* -1, 0, 1 as a < b, a = b, a > b
Cmp(a, b) ==
    IF Len(a) < Len(b) THEN -1
    ELSE IF Len(a) > Len(b) THEN 1
    ELSE LET diff == {i \in DOMAIN a : a[i] # b[i]}
         IN  IF diff = {} THEN 0
             ELSE IF a[MaxOf(diff)] < b[MaxOf(diff)] THEN -1 ELSE 1

\* a * k for 0 <= k < Base
RECURSIVE MulSmallFrom(_, _, _, _)
MulSmallFrom(a, k, i, c) ==
    IF i > Len(a) THEN (IF c = 0 THEN <<>> ELSE <<c>>)
    ELSE LET s == a[i] * k + c
         IN  <<s % Base>> \o MulSmallFrom(a, k, i + 1, s \div Base)

MulSmall(a, k) == IF k = 0 THEN <<>> ELSE MulSmallFrom(a, k, 1, 0)

RECURSIVE MulFrom(_, _, _)
MulFrom(a, b, i) ==
    IF i > Len(b) THEN <<>>
    ELSE Add(MulSmall(a, b[i]),
             LET r == MulFrom(a, b, i + 1) IN IF r = <<>> THEN r ELSE <<0>> \o r)

Mul(a, b) == IF a = <<>> \/ b = <<>> THEN <<>> ELSE Norm(MulFrom(a, b, 1))

\* <<floor(a / d), a mod d>> for 0 < d < Base; the remainder is an integer:
\* DivSmallFrom(a, d, i) divides the number made of the limbs i..Len(a) of a
RECURSIVE DivSmallFrom(_, _, _)
DivSmallFrom(a, d, i) ==
    IF i > Len(a) THEN <<<<>>, 0>>
    ELSE LET up  == DivSmallFrom(a, d, i + 1)
             cur == up[2] * Base + a[i]
         IN  <<<<cur \div d>> \o up[1], cur % d>>

DivSmall(a, d) ==
    LET qr == DivSmallFrom(a, d, 1) IN <<Norm(qr[1]), qr[2]>>

Zeros(n) == [i \in 1..n |-> 0]

\* a * 2^k: whole limbs, then bits within the limbs
Shl(a, k) ==
    IF a = <<>> THEN a
    ELSE LET f == 2^(k % LimbBits)
         IN  Norm(Zeros(k \div LimbBits) \o
                  [i \in 1..(Len(a) + 1) |->
                      ((Limb(a, i) * f) % Base) + ((Limb(a, i - 1) * f) \div Base)])

\* floor(a / 2^k)
Shr(a, k) ==
    LET drop == k \div LimbBits
        f    == 2^(k % LimbBits)
    IN  IF drop >= Len(a) THEN <<>>
        ELSE Norm([i \in 1..(Len(a) - drop) |->
                      (a[drop + i] \div f)
                      + ((Limb(a, drop + i + 1) % f) * (Base \div f))])

BitLen(a) == IF a = <<>> THEN 0 ELSE LimbBits * (Len(a) - 1) + BitsOf(a[Len(a)])

IsOdd(a) == a # <<>> /\ a[1] % 2 = 1

\* the largest d in lo..hi with b * d <= r
RECURSIVE Digit(_, _, _, _)
Digit(r, b, lo, hi) ==
    IF lo = hi THEN lo
    ELSE LET mid == (lo + hi + 1) \div 2
         IN  IF Cmp(MulSmall(b, mid), r) <= 0
             THEN Digit(r, b, mid, hi)
             ELSE Digit(r, b, lo, mid - 1)

\* <<floor(a / b), a mod b>> for b > 0, by long division, a limb at a time:
\* DivModFrom(a, b, i) divides the number made of the limbs i..Len(a) of a.
\* The two leading limbs of the running remainder and the leading limb of b
\* bound the next limb of the quotient from both sides.
RECURSIVE DivModFrom(_, _, _)
DivModFrom(a, b, i) ==
    IF i > Len(a) THEN <<<<>>, <<>>>>
    ELSE LET up == DivModFrom(a, b, i + 1)
         IN  IF up[2] = <<>> /\ a[i] = 0
             THEN <<Norm(<<0>> \o up[1]), <<>>>>
             ELSE LET cur == Norm(<<a[i]>> \o up[2])
                      n   == Len(b)
                      rt  == Limb(cur, n + 1) * Base + Limb(cur, n)
                      d   == Digit(cur, b, rt \div (b[n] + 1),
                                   Min(Base - 1, rt \div b[n]))
                  IN  <<Norm(<<d>> \o up[1]), Sub(cur, MulSmall(b, d))>>

\* b is shifted to fill its leading limb, which makes the bounds tight
DivMod(a, b) ==
    LET s  == LimbBits - BitsOf(b[Len(b)])
        qr == DivModFrom(Shl(a, s), Shl(b, s), 1)
    IN  <<qr[1], Shr(qr[2], s)>>

\* a * 10^n for n <= 9
MulPow10(a, n) == Mul(a, FromInt(10^n))

\* <<floor(a / 10^n), whether a mod 10^n # 0>>, four digits at a time
RECURSIVE DivPow10(_, _)
DivPow10(a, n) ==
    IF n = 0 THEN <<a, FALSE>>
    ELSE LET s  == Min(n, 4)
             qr == DivSmall(a, 10^s)
         IN  IF qr[2] # 0 THEN <<DivPow10(qr[1], n - s)[1], TRUE>>
             ELSE DivPow10(qr[1], n - s)

-----------------------------------------------------------------------------
(* Python float: IEEE-754 binary64.  A float is [neg, m, e] with value     *)
(* (-1)^neg * m * 2^e, where m = 0 (and e = 0) or 2^52 <= m < 2^53.  The   *)
(* values of the model stay far from the subnormal and overflow ranges.    *)

MantBits == 53

FZero == [neg |-> FALSE, m |-> <<>>, e |-> 0]

\* the float nearest to n * 2^e (ties to even), n a natural number: q1 is
\* the leading 54 bits of n, the mantissa and the bit that is worth a half
MkFloat(neg, n, e) ==
    LET len == BitLen(n)
    IN  IF len = 0 THEN [neg |-> neg, m |-> <<>>, e |-> 0]
        ELSE IF len <= MantBits
        THEN [neg |-> neg, m |-> Shl(n, MantBits - len), e |-> e - (MantBits - len)]
        ELSE LET sh == len - MantBits
                 q1 == Shr(n, sh - 1)
             IN  IF ~IsOdd(q1)
                 THEN [neg |-> neg, m |-> Shr(q1, 1), e |-> e + sh]
                 ELSE LET q == Shr(q1, 1)
                      IN  IF IsOdd(q) \/ Shl(q1, sh - 1) # n
                          THEN LET q2 == Add(q, <<1>>)
                               IN  IF BitLen(q2) > MantBits
                                   THEN [neg |-> neg, m |-> Shr(q2, 1),
                                         e |-> e + sh + 1]
                                   ELSE [neg |-> neg, m |-> q2, e |-> e + sh]
                          ELSE [neg |-> neg, m |-> q, e |-> e + sh]

FNeg(x) == [x EXCEPT !.neg = ~x.neg]

FMul(x, y) ==
    IF x.m = <<>> \/ y.m = <<>> THEN [FZero EXCEPT !.neg = (x.neg # y.neg)]
    ELSE MkFloat(x.neg # y.neg, Mul(x.m, y.m), x.e + y.e)

FAdd(x, y) ==
    IF x.m = <<>> /\ y.m = <<>> THEN [FZero EXCEPT !.neg = x.neg /\ y.neg]
    ELSE IF x.m = <<>> THEN y
    ELSE IF y.m = <<>> THEN x
    ELSE LET e0 == Min(x.e, y.e)
             a  == Shl(x.m, x.e - e0)
             b  == Shl(y.m, y.e - e0)
             c  == Cmp(a, b)
         IN  IF x.neg = y.neg THEN MkFloat(x.neg, Add(a, b), e0)
             ELSE IF c = 0 THEN FZero
             ELSE IF c > 0 THEN MkFloat(x.neg, Sub(a, b), e0)
             ELSE MkFloat(y.neg, Sub(b, a), e0)

FSub(x, y) == FAdd(x, FNeg(y))

\* x / y for y # 0 (the callers raise ZeroDivisionError on y = 0 before
\* they divide): 56 quotient bits and a sticky bit, then rounded
FDiv(x, y) ==
    IF x.m = <<>> \/ y.m = <<>> THEN [FZero EXCEPT !.neg = (x.neg # y.neg)]
    ELSE LET qr == DivMod(Shl(x.m, MantBits + 3), y.m)
             e  == x.e - y.e - (MantBits + 3) - 1
         IN  IF qr[2] = <<>> THEN MkFloat(x.neg # y.neg, Shl(qr[1], 1), e)
             ELSE MkFloat(x.neg # y.neg, Add(Shl(qr[1], 1), <<1>>), e)

\* -1, 0, 1 as x < y, x = y, x > y (the two zeros are equal)
FCmpMag(x, y) ==
    IF x.m = <<>> \/ y.m = <<>>
    THEN (IF x.m = y.m THEN 0 ELSE IF x.m = <<>> THEN -1 ELSE 1)
    ELSE IF x.e # y.e THEN (IF x.e < y.e THEN -1 ELSE 1)
    ELSE Cmp(x.m, y.m)

FCmp(x, y) ==
    IF x.m = <<>> /\ y.m = <<>> THEN 0
    ELSE IF x.neg /\ ~y.neg THEN -1
    ELSE IF ~x.neg /\ y.neg THEN 1
    ELSE IF x.neg THEN -FCmpMag(x, y)
    ELSE FCmpMag(x, y)

FLt(x, y) == FCmp(x, y) < 0

-----------------------------------------------------------------------------
(* Decimal numbers [neg, mag, digits]: (-1)^neg * mag / 10^digits.         *)

\* float(text) and Decimal -> float: the float nearest to the decimal
FromDecimal(neg, mag, digits) ==
    IF mag = <<>> THEN [neg |-> neg, m |-> <<>>, e |-> 0]
    ELSE LET den == BitLen(MulPow10(<<1>>, digits))
             k0  == MantBits + 3 + den - BitLen(mag)
             k   == IF k0 < 0 THEN 0 ELSE k0
             qs  == DivPow10(Shl(mag, k), digits)
         IN  IF qs[2] THEN MkFloat(neg, Add(Shl(qs[1], 1), <<1>>), -k - 1)
             ELSE MkFloat(neg, Shl(qs[1], 1), -k - 1)

\* Decimal(x).quantize(10^-digits, ROUND_DOWN): |x| * 10^digits, truncated
TruncDec(x, digits) ==
    IF x.e >= 0 THEN Shl(MulPow10(x.m, digits), x.e)
    ELSE Shr(MulPow10(x.m, digits), -x.e)

\* |x| * 10^digits rounded to the nearest integer (ties to even): q1 is the
\* integer part and the bit that is worth a half
NearestDec(x, digits) ==
    IF x.e >= 0 THEN Shl(MulPow10(x.m, digits), x.e)
    ELSE LET n  == MulPow10(x.m, digits)
             q1 == Shr(n, -x.e - 1)
         IN  IF ~IsOdd(q1) THEN Shr(q1, 1)
             ELSE LET q == Shr(q1, 1)
                  IN  IF IsOdd(q) \/ Shl(q1, -x.e - 1) # n
                      THEN Add(q, <<1>>) ELSE q

\* |x| * 10^digits rounded up to an integer, as ROUND_UP would quantize
CeilDec(x, digits) ==
    IF x.e >= 0 THEN TruncDec(x, digits)
    ELSE IF Shl(TruncDec(x, digits), -x.e) = MulPow10(x.m, digits)
    THEN TruncDec(x, digits)
    ELSE Add(TruncDec(x, digits), <<1>>)

\* round_dec with rounding=ROUND_UP in place of ROUND_DOWN
round_dec_up(value, ndigits) ==
    FromDecimal(value.neg, CeilDec(value, ndigits), ndigits)

round_dec(value, ndigits) ==
    FromDecimal(value.neg, TruncDec(value, ndigits), ndigits)

-----------------------------------------------------------------------------
(* The text of a number in a JSON file, and of an amount a caller types:   *)
(* [neg, int, frac] stands for (-1)^neg * (int + frac / 10^FileDigits).    *)
(* Every number the files hold has at most FileDigits fractional digits:   *)
(* the defaults do, and every number written is a result of round_dec.     *)

FileDigits == 8

Dec(int, frac) == [neg |-> FALSE, int |-> int, frac |-> frac]

DecNeg(d) == [d EXCEPT !.neg = ~d.neg]

\* the number in units of 10^-FileDigits
DecMag(d) == Add(MulPow10(FromInt(d.int), FileDigits), FromInt(d.frac))

RECURSIVE ToInt(_)
ToInt(a) == IF a = <<>> THEN 0 ELSE a[1] + Base * ToInt(Tail(a))

MagDec(neg, mag) ==
    LET lo == DivSmall(mag, 10^4)
        hi == DivSmall(lo[1], 10^4)
    IN  [neg |-> neg, int |-> ToInt(hi[1]), frac |-> hi[2] * 10^4 + lo[2]]

\* float(text), and json.load of a number
ParseFloat(d) ==
    IF d.int = 0 /\ d.frac = 0 THEN [FZero EXCEPT !.neg = d.neg]
    ELSE FromDecimal(d.neg, DecMag(d), FileDigits)

\* repr(x), as json.dump writes a float: the shortest text that reads back
\* as x, which is the FileDigits-digit decimal nearest to x whenever x is
\* the float of one
ReprFloat(x) == MagDec(x.neg, NearestDec(x, FileDigits))

-----------------------------------------------------------------------------
(* Strings the code takes apart are sequences of characters.               *)

Lower == <<"a","b","c","d","e","f","g","h","i","j","k","l","m",
           "n","o","p","q","r","s","t","u","v","w","x","y","z">>
Caps  == <<"A","B","C","D","E","F","G","H","I","J","K","L","M",
           "N","O","P","Q","R","S","T","U","V","W","X","Y","Z">>

UpperChar(c) ==
    IF \E i \in 1..Len(Lower) : Lower[i] = c
    THEN Caps[CHOOSE i \in 1..Len(Lower) : Lower[i] = c]
    ELSE c

\* str.upper()
Upper(s) == [i \in 1..Len(s) |-> UpperChar(s[i])]

\* str.replace(old, new): every occurrence of old, left to right
RECURSIVE Replace(_, _, _)
Replace(s, old, new) ==
    IF Len(s) < Len(old) THEN s
    ELSE IF SubSeq(s, 1, Len(old)) = old
    THEN new \o Replace(SubSeq(s, Len(old) + 1, Len(s)), old, new)
    ELSE <<s[1]>> \o Replace(Tail(s), old, new)

USDT == <<"U","S","D","T">>
BTC  == <<"B","T","C">>
ETH  == <<"E","T","H">>
BNB  == <<"B","N","B">>
SOL  == <<"S","O","L">>

-----------------------------------------------------------------------------
(* Module constants of trading_bot.py.                                     *)

DEFAULT_PRICES ==
    << [symbol |-> BTC \o USDT, price |-> Dec(68250, 0)],
       [symbol |-> ETH \o USDT, price |-> Dec(3650, 0)],
       [symbol |-> BNB \o USDT, price |-> Dec(590, 0)],
       [symbol |-> SOL \o USDT, price |-> Dec(190, 50000000)] >>

DEFAULT_BALANCE ==
    [a \in {USDT, BTC, ETH, BNB, SOL} |->
        IF a = USDT THEN Dec(10000, 0) ELSE Dec(0, 0)]

SIDE_BUY  == "BUY"
SIDE_SELL == "SELL"

-----------------------------------------------------------------------------
(* Helper functions.                                                       *)

\* json.load of the balance record (a flat map) and of the price table
read_json(file) == [a \in DOMAIN file |-> ParseFloat(file[a])]

read_prices(file) ==
    [i \in 1..Len(file) |->
        [symbol |-> file[i].symbol, price |-> ParseFloat(file[i].price)]]

\* json.dump of the balance record
write_json(data) == [a \in DOMAIN data |-> ReprFloat(data[a])]

\* dict.get(key, default) and dict[key] = value
Get(d, key, default) == IF key \in DOMAIN d THEN d[key] ELSE default

Put(d, key, value) ==
    [a \in DOMAIN d \cup {key} |-> IF a = key THEN value ELSE d[a]]

-----------------------------------------------------------------------------
(* MockFuturesBot.  An optional value is [some, val]; a call's outcome is  *)
(* [raised, ret, file]: the exception raised ("" when the call returns),   *)
(* the value returned, and the balance file as the call leaves it.         *)

None == [some |-> FALSE]
Some(v) == [some |-> TRUE, val |-> v]

get_all_prices(prices_file) == read_prices(prices_file)

RECURSIVE get_price_from(_, _, _)
get_price_from(prices, symbol, i) ==
    IF i > Len(prices) THEN None
    ELSE IF Upper(prices[i].symbol) = Upper(symbol) THEN Some(prices[i].price)
    ELSE get_price_from(prices, symbol, i + 1)

get_price(prices_file, symbol) ==
    get_price_from(get_all_prices(prices_file), symbol, 1)

get_balance(balance_file) == Get(read_json(balance_file), USDT, FZero)

show_balance(balance_file) == read_json(balance_file)

\* a set_leverage that stores the leverage in the balance record
set_leverage_stored(prices_file, balance_file, symbol, leverage) ==
    [raised |-> "", ret |-> None, prices |-> prices_file,
     balance |-> Put(balance_file, symbol, Dec(leverage, 0))]

\* the mock only logs: it returns None and leaves both files as they are
set_leverage(prices_file, balance_file, symbol, leverage) ==
    [raised |-> "", ret |-> None, prices |-> prices_file,
     balance |-> balance_file]

Raise(err, file) == [raised |-> err, ret |-> None, file |-> file]

Filled(side, symbol, price, quantity, file) ==
    [raised |-> "",
     ret    |-> Some([status |-> "FILLED", side |-> side, symbol |-> symbol,
                      price |-> price, qty |-> quantity]),
     file   |-> file]

\* a BUY without the funds check
BuyNeverRejected(b, cost) == FALSE

BuyRejected(b, cost) == FLt(b[USDT], cost)

\* the SELL check with its comparison the wrong way round
SellRejectedReversed(b, symbol_base, quantity) ==
    FLt(quantity, Get(b, symbol_base, FZero))

SellRejected(b, symbol_base, quantity) ==
    FLt(Get(b, symbol_base, FZero), quantity)

Buy(b, symbol_base, quantity, cost) ==
    LET b1 == [b EXCEPT ![USDT] = round_dec(FSub(b[USDT], cost), 6)]
    IN  Put(b1, symbol_base,
            round_dec(FAdd(Get(b1, symbol_base, FZero), quantity), 8))

Sell(b, symbol_base, quantity, proceeds) ==
    LET b1 == Put(b, symbol_base,
                  round_dec(FSub(Get(b, symbol_base, FZero), quantity), 8))
    IN  [b1 EXCEPT ![USDT] = round_dec(FAdd(b1[USDT], proceeds), 6)]

place_market_order(prices_file, balance_file, symbol, side, quantity) ==
    LET b           == read_json(balance_file)
        symbol_base == Replace(symbol, USDT, <<>>)
        price       == get_price(prices_file, symbol)
    IN  IF ~price.some
        THEN Raise("ValueError: Symbol not found in mock prices", balance_file)
        ELSE IF side = SIDE_BUY
        THEN LET cost == FMul(quantity, price.val)
             IN  IF BuyRejected(b, cost)
                 THEN Raise("ValueError: Not enough USDT", balance_file)
                 ELSE Filled("BUY", symbol, price.val, quantity,
                             write_json(Buy(b, symbol_base, quantity, cost)))
        ELSE IF side = SIDE_SELL
        THEN IF SellRejected(b, symbol_base, quantity)
             THEN Raise("ValueError: Not enough base asset", balance_file)
             ELSE LET proceeds == FMul(quantity, price.val)
                  IN  Filled("SELL", symbol, price.val, quantity,
                             write_json(Sell(b, symbol_base, quantity, proceeds)))
        ELSE [raised |-> "", ret |-> None, file |-> balance_file]

\* {"symbol": symbol, "markPrice": str(price)}: the text of the price, or
\* the text "None" (here None) when the symbol has no price
futures_mark_price(prices_file, symbol) ==
    LET price == get_price(prices_file, symbol)
    IN  [symbol    |-> symbol,
         markPrice |-> IF price.some THEN Some(ReprFloat(price.val)) ELSE None]

-----------------------------------------------------------------------------
(* Factory.  An API key or secret is None or Some(text); Client(...) is    *)
(* the python-binance constructor, which returns or raises: client_ok.     *)

Truthy(s) == s.some /\ s.val # ""

RealFuturesBot(available, api_key, api_secret, testnet, client_ok) ==
    IF ~available
    THEN [raised |-> "RuntimeError: python-binance package not installed",
          kind |-> "none", testnet |-> testnet]
    ELSE IF ~client_ok
    THEN [raised |-> "Client", kind |-> "none", testnet |-> testnet]
    ELSE [raised |-> "", kind |-> "RealFuturesBot", testnet |-> testnet]

\* the factory's condition without the availability of the library
UseRealUnchecked(available, api_key, api_secret, use_real) ==
    use_real /\ Truthy(api_key) /\ Truthy(api_secret)

UseReal(available, api_key, api_secret, use_real) ==
    use_real /\ available /\ Truthy(api_key) /\ Truthy(api_secret)

build_bot(available, api_key, api_secret, use_real, testnet, client_ok) ==
    IF UseReal(available, api_key, api_secret, use_real)
    THEN RealFuturesBot(available, api_key, api_secret, testnet, client_ok)
    ELSE [raised |-> "", kind |-> "MockFuturesBot", testnet |-> testnet]

-----------------------------------------------------------------------------
(* Business logic utilities.  risk_pct and stop_loss_pct are floats,       *)
(* leverage is an int, which Python converts to a float to multiply.       *)

IntFloat(n) == IF n < 0 THEN MkFloat(TRUE, FromInt(-n), 0)
               ELSE MkFloat(FALSE, FromInt(n), 0)

calculate_position_size(prices_file, balance_file, symbol, risk_pct, stop_loss_pct, leverage) ==
    LET balance     == get_balance(balance_file)
        risk_amount == FMul(balance, FDiv(risk_pct, IntFloat(100)))
        price_data  == futures_mark_price(prices_file, symbol)
    IN  IF ~price_data.markPrice.some
        THEN [raised |-> "ValueError: could not convert string to float",
              ret |-> None]
        ELSE LET current_price == ParseFloat(price_data.markPrice.val)
                 stop_distance == FMul(current_price, stop_loss_pct)
             IN  IF stop_distance.m = <<>>
                 THEN [raised |-> "ZeroDivisionError: float division by zero",
                       ret |-> None]
                 ELSE LET qty == FDiv(FMul(risk_amount, IntFloat(leverage)),
                                      stop_distance)
                      IN  [raised |-> "",
                           ret |-> Some([qty   |-> round_dec(qty, 6),
                                         price |-> current_price])]

-----------------------------------------------------------------------------
(* The state: the two JSON files, the import-time flag, and what the       *)
(* callers have seen: every place_market_order call with the balance file  *)
(* before it and its outcome, the last build_bot call, the last            *)
(* calculate_position_size call, the last call of a query or of            *)
(* set_leverage with the number of such calls, and, for callers that run   *)
(* at the same time, each caller's place_market_order in progress.         *)

VARIABLES prices_file, balance_file, BINANCE_AVAILABLE,
          orders, bot, builds, sizing, reads, sessions

vars == <<prices_file, balance_file, BINANCE_AVAILABLE,
          orders, bot, builds, sizing, reads, sessions>>

MaxOrders == 3
MaxBuilds == 2

NoCall == [called |-> FALSE]

NoReads == [n |-> 0]

\* the callers that may run at the same time, none of them in a call
Sessions == {1, 2}

NoSessions == [p \in Sessions |-> [pc |-> "idle"]]

\* amounts a caller types
Amount(int, frac) == Dec(int, frac)

Symbols == {ETH \o USDT, SOL \o USDT}
Sides   == {SIDE_BUY, SIDE_SELL}
Amounts == {Amount(0, 30000000), Amount(0, 100000), Amount(2, 73972603)}

AnySymbols == {ETH \o USDT, <<"e","t","h","u","s","d","t">>,
               <<"X","R","P">> \o USDT}
AnySides   == {SIDE_BUY, SIDE_SELL, "HOLD"}
AnyAmounts == {Amount(0, 30000000), Amount(0, 0), DecNeg(Amount(0, 30000000))}


Files ==
    /\ prices_file = DEFAULT_PRICES
    /\ balance_file = DEFAULT_BALANCE

Init ==
    /\ Files
    /\ BINANCE_AVAILABLE = FALSE
    /\ orders = <<>>
    /\ bot = NoCall
    /\ builds = 0
    /\ sizing = NoCall
    /\ reads = NoReads
    /\ sessions = NoSessions

PlaceMarketOrder(symbol, side, amount) ==
    /\ Len(orders) < MaxOrders
    /\ \E r \in {place_market_order(prices_file, balance_file, symbol, side,
                                    ParseFloat(amount))} :
          /\ balance_file' = r.file
          /\ orders' = Append(orders,
                 [symbol |-> symbol, side |-> side, amount |-> amount,
                  before |-> balance_file, raised |-> r.raised, ret |-> r.ret])
    /\ UNCHANGED <<prices_file, BINANCE_AVAILABLE, bot, builds, sizing, reads, sessions>>

\* callers that keep to the interface: a side of {BUY, SELL}, an amount > 0
Order ==
    \E symbol \in Symbols, side \in Sides, amount \in Amounts :
        PlaceMarketOrder(symbol, side, amount)

\* any caller
AnyOrder ==
    \E symbol \in AnySymbols, side \in AnySides, amount \in AnyAmounts :
        PlaceMarketOrder(symbol, side, amount)

Next == Order

Spec == Init /\ [][Next]_vars

NextAny == AnyOrder

SpecAny == Init /\ [][NextAny]_vars

-----------------------------------------------------------------------------
(* The factory and the calculator as operations of their own               *)
(* specifications: build_bot under either value of the import-time flag,   *)
(* calculate_position_size on the default ledger and on the ledgers that   *)
(* BUY orders leave.                                                       *)

ApiTexts == {None, Some(""), Some("key")}

BuildBot(api_key, api_secret, use_real, testnet, client_ok) ==
    /\ builds < MaxBuilds
    /\ \E r \in {build_bot(BINANCE_AVAILABLE, api_key, api_secret,
                           use_real, testnet, client_ok)} :
          bot' = [called |-> TRUE, api_key |-> api_key,
                  api_secret |-> api_secret, use_real |-> use_real,
                  raised |-> r.raised, kind |-> r.kind, testnet |-> r.testnet]
    /\ builds' = builds + 1
    /\ UNCHANGED <<prices_file, balance_file, BINANCE_AVAILABLE, orders, sizing, reads, sessions>>

Build ==
    \E api_key \in ApiTexts, api_secret \in ApiTexts,
       use_real \in BOOLEAN, testnet \in BOOLEAN, client_ok \in BOOLEAN :
        BuildBot(api_key, api_secret, use_real, testnet, client_ok)

InitFactory ==
    /\ Files
    /\ BINANCE_AVAILABLE \in BOOLEAN
    /\ orders = <<>>
    /\ bot = NoCall
    /\ builds = 0
    /\ sizing = NoCall
    /\ reads = NoReads
    /\ sessions = NoSessions

NextFactory == Build

SpecFactory == InitFactory /\ [][NextFactory]_vars

SizingSymbols == {BTC \o USDT, BNB \o USDT, <<"X","R","P">> \o USDT}
RiskPcts      == {Amount(1, 0), Amount(5, 90000000)}
StopLossPcts  == {Amount(0, 1000000), Amount(0, 0), DecNeg(Amount(0, 1000000))}
Leverages     == {1, 5}

MaxFunding == 1

CalculatePositionSize(symbol, risk_pct, stop_loss_pct, leverage) ==
    /\ \E r \in {calculate_position_size(prices_file, balance_file, symbol,
                     ParseFloat(risk_pct), ParseFloat(stop_loss_pct), leverage)} :
          sizing' = [called |-> TRUE, symbol |-> symbol, risk_pct |-> risk_pct,
                     stop_loss_pct |-> stop_loss_pct, leverage |-> leverage,
                     raised |-> r.raised, ret |-> r.ret]
    /\ UNCHANGED <<prices_file, balance_file, BINANCE_AVAILABLE, orders, bot, builds, reads, sessions>>

Size ==
    \E symbol \in SizingSymbols, risk_pct \in RiskPcts,
       stop_loss_pct \in StopLossPcts, leverage \in Leverages :
        CalculatePositionSize(symbol, risk_pct, stop_loss_pct, leverage)

\* orders that change the ledger the calculator reads
Fund ==
    \E amount \in Amounts :
        /\ Len(orders) < MaxFunding
        /\ PlaceMarketOrder(ETH \o USDT, SIDE_BUY, amount)

NextSizing == Fund \/ Size

SpecSizing == Init /\ [][NextSizing]_vars

-----------------------------------------------------------------------------
(* The queries and set_leverage as operations of a specification of their  *)
(* own, between orders that change the ledger they read.  A query opens    *)
(* its file for reading only.                                              *)

MaxReads == 3

Queries == {"get_all_prices", "get_price", "get_balance", "show_balance",
            "futures_mark_price"}

AnyLeverages == {1, 0, 125}

\* what the query returns
Answer(op, symbol) ==
    CASE op = "get_all_prices"     -> get_all_prices(prices_file)
      [] op = "get_price"          -> get_price(prices_file, symbol)
      [] op = "get_balance"        -> get_balance(balance_file)
      [] op = "show_balance"       -> show_balance(balance_file)
      [] op = "futures_mark_price" -> futures_mark_price(prices_file, symbol)

Query ==
    \E op \in Queries, symbol \in AnySymbols :
        /\ reads.n < MaxReads
        /\ reads' = [n |-> reads.n + 1, op |-> op, symbol |-> symbol,
                     leverage |-> 0, raised |-> "", ret |-> Answer(op, symbol)]
        /\ UNCHANGED <<prices_file, balance_file, BINANCE_AVAILABLE,
                       orders, bot, builds, sizing, sessions>>

SetLeverage ==
    \E symbol \in AnySymbols, leverage \in AnyLeverages :
        /\ reads.n < MaxReads
        /\ \E r \in {set_leverage(prices_file, balance_file, symbol, leverage)} :
              /\ prices_file' = r.prices
              /\ balance_file' = r.balance
              /\ reads' = [n |-> reads.n + 1, op |-> "set_leverage",
                           symbol |-> symbol, leverage |-> leverage,
                           raised |-> r.raised, ret |-> r.ret]
        /\ UNCHANGED <<BINANCE_AVAILABLE, orders, bot, builds, sizing, sessions>>

\* the calculator, once, on a symbol of the table or on one outside it
SizeOnce ==
    \E symbol \in SizingSymbols, stop_loss_pct \in StopLossPcts :
        /\ ~sizing.called
        /\ CalculatePositionSize(symbol, Amount(1, 0), stop_loss_pct, 1)

NextReads == Fund \/ Query \/ SetLeverage \/ SizeOnce

SpecReads == Init /\ [][NextReads]_vars

-----------------------------------------------------------------------------
(* Callers that run at the same time on the same files, with no lock       *)
(* between them.  place_market_order reads the balance record into b when  *)
(* it starts and writes b back when it fills: reading the file and writing *)
(* it are the two steps of a call, and another caller's steps may come     *)
(* between them.  A call that raises writes nothing.                       *)

\* a call that reads the balance record again as it writes
RereadBalance(s, current) == current

\* b, as the call read it when it started
HeldBalance(s, current) == s.b

Done == {p \in Sessions : sessions[p].pc = "done"}

\* b = read_json(self.balance_file)
Begin ==
    \E p \in Sessions, symbol \in Symbols, side \in Sides, amount \in Amounts :
        /\ sessions[p].pc = "idle"
        /\ sessions' = [sessions EXCEPT ![p] =
                [pc |-> "read", symbol |-> symbol, side |-> side,
                 amount |-> amount, b |-> balance_file,
                 seen |-> Cardinality(Done)]]
        /\ UNCHANGED <<prices_file, balance_file, BINANCE_AVAILABLE,
                       orders, bot, builds, sizing, reads>>

\* the rest of the call: the checks, and write_json(self.balance_file, b)
Finish ==
    \E p \in Sessions :
        /\ sessions[p].pc = "read"
        /\ \E s \in {sessions[p]} :
              \E r \in {place_market_order(prices_file,
                                           HeldBalance(s, balance_file),
                                           s.symbol, s.side,
                                           ParseFloat(s.amount))} :
                 /\ balance_file' = IF r.raised = "" /\ r.ret.some
                                    THEN r.file ELSE balance_file
                 /\ sessions' = [sessions EXCEPT ![p] =
                         [pc |-> "done", symbol |-> s.symbol, side |-> s.side,
                          amount |-> s.amount, b |-> s.b, seen |-> s.seen,
                          nth |-> Cardinality(Done) + 1,
                          raised |-> r.raised, ret |-> r.ret]]
        /\ UNCHANGED <<prices_file, BINANCE_AVAILABLE,
                       orders, bot, builds, sizing, reads>>

\* orders placed before the callers start, for the ledger they start from
FundFirst ==
    /\ \A p \in Sessions : sessions[p].pc = "idle"
    /\ Fund

NextSessions == FundFirst \/ Begin \/ Finish

SpecSessions == Init /\ [][NextSessions]_vars

-----------------------------------------------------------------------------
(* What a claim expects is stated in exact decimal arithmetic over the     *)
(* numbers the caller passes and the files hold: natural numbers of units  *)
(* of 10^-FileDigits, products in units of 10^-(2 * FileDigits).           *)

LastOrder == orders[Len(orders)]

IsFilled(o) == o.raised = "" /\ o.ret.some /\ o.ret.val.status = "FILLED"

Negative(d) == d.neg /\ DecMag(d) # <<>>

Positive(d) == ~d.neg /\ DecMag(d) # <<>>

\* the symbol is one of the price table, as the table spells it
InTable(symbol) == \E i \in DOMAIN prices_file : prices_file[i].symbol = symbol

\* the price lookup finds the symbol
Known(symbol) ==
    \E i \in DOMAIN prices_file : Upper(prices_file[i].symbol) = Upper(symbol)

PriceText(symbol) ==
    prices_file[CHOOSE i \in DOMAIN prices_file :
                    Upper(prices_file[i].symbol) = Upper(symbol)].price

\* the symbol without its USDT suffix
BaseAsset(symbol) == SubSeq(symbol, 1, Len(symbol) - Len(USDT))

\* units of an asset in a balance sheet, a missing asset counting as 0
Held(file, a) == IF a \in DOMAIN file THEN DecMag(file[a]) ELSE <<>>

\* quantity x price of an order
ExactCost(o) == Mul(DecMag(o.amount), DecMag(PriceText(o.symbol)))

\* a number of units of 10^-(2 * FileDigits), truncated to 6 fractional
\* digits, in units of 10^-FileDigits
Trunc6(a) == MulSmall(DivPow10(a, 2 * FileDigits - 6)[1], 10^(FileDigits - 6))

\* C1: after any sequence of BUY and SELL orders with quantity > 0 from the
\* default ledger, every quantity of the persisted balance sheet, USDT
\* included, is >= 0.
NoNegativeBalance == \A a \in DOMAIN balance_file : ~Negative(balance_file[a])

\* a SELL has filled and a call has failed
SoldAndStillNonNegative ==
    /\ \E i \in DOMAIN orders :
          IsFilled(orders[i]) /\ orders[i].side = SIDE_SELL
    /\ \E i \in DOMAIN orders : orders[i].raised # ""

\* the order asks for more than the sheet before it holds of the asset it
\* debits: USDT for a BUY, the base asset for a SELL
Overdraws(o) ==
    IF o.side = SIDE_BUY
    THEN Cmp(ExactCost(o), MulPow10(Held(o.before, USDT), FileDigits)) > 0
    ELSE Cmp(DecMag(o.amount),
             Held(o.before, Replace(o.symbol, USDT, <<>>))) > 0

InsufficientFunds(o) ==
    IF o.side = SIDE_BUY THEN o.raised = "ValueError: Not enough USDT"
    ELSE o.raised = "ValueError: Not enough base asset"

\* C2: an order that would overdraw the asset it debits fails with the
\* insufficient-funds error, returns nothing and leaves the persisted
\* balance sheet as it was before the call.
OverdrawFailsUnchanged ==
    Len(orders) > 0 /\ Overdraws(LastOrder)
        => /\ InsufficientFunds(LastOrder)
           /\ ~LastOrder.ret.some
           /\ balance_file = LastOrder.before

\* a BUY and a SELL have each asked for more than the sheet held
BothOverdrawsSeen ==
    /\ \E i \in DOMAIN orders :
          orders[i].side = SIDE_BUY /\ Overdraws(orders[i])
    /\ \E i \in DOMAIN orders :
          orders[i].side = SIDE_SELL /\ Overdraws(orders[i])

\* the balance sheet the claim expects after a fill
ExpectedSheet(o) ==
    LET base == BaseAsset(o.symbol)
        usdt == MulPow10(Held(o.before, USDT), FileDigits)
    IN  IF o.side = SIDE_BUY
        THEN [a \in DOMAIN o.before \cup {base} |->
                IF a = USDT THEN MagDec(FALSE, Trunc6(Sub(usdt, ExactCost(o))))
                ELSE IF a = base
                THEN MagDec(FALSE, Add(Held(o.before, base), DecMag(o.amount)))
                ELSE o.before[a]]
        ELSE [a \in DOMAIN o.before \cup {base} |->
                IF a = USDT THEN MagDec(FALSE, Trunc6(Add(usdt, ExactCost(o))))
                ELSE IF a = base
                THEN MagDec(FALSE, Sub(Held(o.before, base), DecMag(o.amount)))
                ELSE o.before[a]]

\* the OrderResult the claim expects
ExpectedResult(o) ==
    [status |-> "FILLED", side |-> o.side, symbol |-> o.symbol,
     price |-> ParseFloat(PriceText(o.symbol)), qty |-> ParseFloat(o.amount)]

\* C3: after an order that fills on a symbol of the price table, the
\* persisted sheet holds USDT = (USDT before -/+ quantity x price) truncated
\* to 6 digits and base = (base before +/- quantity) truncated to 8 digits,
\* every other entry is unchanged, and the result is FILLED with the call's
\* side, symbol, quantity and the looked-up price.
FillIsExactTruncation ==
    Len(orders) > 0 /\ IsFilled(LastOrder) /\ InTable(LastOrder.symbol)
        => /\ balance_file = ExpectedSheet(LastOrder)
           /\ LastOrder.ret.val = ExpectedResult(LastOrder)

\* USDT plus the holdings of the sheet at the prices of the table, in units
\* of 10^-(2 * FileDigits)
RECURSIVE HoldingsFrom(_, _)
HoldingsFrom(file, i) ==
    IF i > Len(prices_file) THEN <<>>
    ELSE Add(Mul(Held(file, BaseAsset(prices_file[i].symbol)),
                 DecMag(prices_file[i].price)),
             HoldingsFrom(file, i + 1))

Notional(file) ==
    Add(MulPow10(Held(file, USDT), FileDigits), HoldingsFrom(file, 1))

\* C4: with the price table unchanged, the total notional value of the
\* balance sheet never increases: after every order it is at most what it
\* was before the order, and at most what it was before the sequence.
NotionalNeverIncreases ==
    Len(orders) > 0
        => /\ Cmp(Notional(balance_file), Notional(LastOrder.before)) <= 0
           /\ Cmp(Notional(balance_file), Notional(orders[1].before)) <= 0

\* a BUY and then a SELL have filled, and value has been lost to truncation
FilledBothWaysWithLoss ==
    /\ Len(orders) > 1
    /\ IsFilled(LastOrder) /\ LastOrder.side = SIDE_SELL
    /\ \E i \in DOMAIN orders : IsFilled(orders[i]) /\ orders[i].side = SIDE_BUY
    /\ Cmp(Notional(balance_file), Notional(orders[1].before)) < 0

\* the last two orders are a BUY and then a SELL of the same quantity on the
\* same symbol, and the BUY was affordable
BuyThenSell ==
    /\ Len(orders) > 1
    /\ orders[Len(orders) - 1].side = SIDE_BUY
    /\ LastOrder.side = SIDE_SELL
    /\ LastOrder.symbol = orders[Len(orders) - 1].symbol
    /\ LastOrder.amount = orders[Len(orders) - 1].amount
    /\ ~Overdraws(orders[Len(orders) - 1])

\* C5: a BUY of q and then a SELL of q on the same symbol, the BUY being
\* affordable, fills both orders and leaves a USDT balance that is not
\* above the original one and is below it by at most 10^-6.
RoundTripWithinOneUnit ==
    BuyThenSell
        => /\ IsFilled(orders[Len(orders) - 1])
           /\ IsFilled(LastOrder)
           /\ Cmp(Held(balance_file, USDT),
                  Held(orders[Len(orders) - 1].before, USDT)) <= 0
           /\ Cmp(Held(orders[Len(orders) - 1].before, USDT),
                  Add(Held(balance_file, USDT),
                      FromInt(10^(FileDigits - 6)))) <= 0

\* the four inputs under which the factory is to build the Live client
LiveRequested ==
    /\ bot.use_real
    /\ BINANCE_AVAILABLE
    /\ bot.api_key.some /\ bot.api_key.val # ""
    /\ bot.api_secret.some /\ bot.api_secret.val # ""

\* C6: build_bot constructs the Live client if and only if use_real is set,
\* the library is available and both credentials are non-empty (the
\* construction returns the Live client or raises what the library's
\* Client raises); on every other input it returns a Simulated client and
\* raises nothing.
LiveIffRequested ==
    bot.called
        => /\ LiveRequested
              => \/ bot.kind = "RealFuturesBot" /\ bot.raised = ""
                 \/ bot.kind = "none" /\ bot.raised = "Client"
           /\ ~LiveRequested
              => bot.kind = "MockFuturesBot" /\ bot.raised = ""

\* the factory has returned a Live client
LiveBuilt == bot.called /\ bot.kind = "RealFuturesBot" /\ bot.raised = ""

\* the last order has a side of {BUY, SELL}, a known symbol and a quantity
\* that is zero or negative
NonPositiveOrder ==
    /\ Len(orders) > 0
    /\ LastOrder.side \in {SIDE_BUY, SIDE_SELL}
    /\ Known(LastOrder.symbol)
    /\ ~Positive(LastOrder.amount)

\* C7: an order with quantity <= 0 on a known symbol, either side, is
\* rejected with an error before any mutation: no FILLED result, and the
\* persisted sheet as it was before the call.
NonPositiveQuantityRejected ==
    NonPositiveOrder
        => /\ LastOrder.raised # ""
           /\ ~IsFilled(LastOrder)
           /\ balance_file = LastOrder.before

\* the calculator was called on a known symbol, whose price is positive,
\* with a stop_loss_pct that is zero or negative
NonPositiveStop ==
    /\ sizing.called
    /\ Known(sizing.symbol)
    /\ ~Positive(sizing.stop_loss_pct)

\* C8: when markPrice x stop_loss_pct is zero or negative the calculator
\* fails with an error and returns no (quantity, price) pair.
StopDistanceGuarded ==
    NonPositiveStop => sizing.raised # "" /\ ~sizing.ret.some

\* the calculator was called within its interface
ValidSizing ==
    /\ sizing.called
    /\ Known(sizing.symbol)
    /\ Positive(sizing.risk_pct)
    /\ Positive(sizing.stop_loss_pct)
    /\ sizing.leverage >= 1

\* (balance x risk_pct / 100 x leverage) / (markPrice x stop_loss_pct),
\* truncated to 6 fractional digits, in units of 10^-6
ExpectedQuantity ==
    DivMod(Mul(Mul(Held(balance_file, USDT), DecMag(sizing.risk_pct)),
               FromInt(sizing.leverage * 10^4)),
           Mul(DecMag(PriceText(sizing.symbol)),
               DecMag(sizing.stop_loss_pct)))[1]

\* C9: for risk_pct > 0, stop_loss_pct > 0, leverage >= 1 and a known
\* symbol the calculator returns (quantity, markPrice) with quantity =
\* (balance x risk_pct / 100 x leverage) / (markPrice x stop_loss_pct)
\* truncated to 6 fractional digits and markPrice the symbol's price.
QuantityIsExactTruncation ==
    ValidSizing
        => /\ sizing.raised = ""
           /\ sizing.ret.some
           /\ sizing.ret.val.qty = FromDecimal(FALSE, ExpectedQuantity, 6)
           /\ sizing.ret.val.price = ParseFloat(PriceText(sizing.symbol))

\* C10: every order call either returns a FILLED result or reports an
\* error and leaves the persisted sheet unchanged; it never returns
\* without the one or the other.
FilledOrError ==
    Len(orders) > 0
        => \/ IsFilled(LastOrder)
           \/ /\ LastOrder.raised # ""
              /\ ~LastOrder.ret.some
              /\ balance_file = LastOrder.before

BothFilledOverlapped ==
    /\ Done = Sessions
    /\ \A p \in Sessions : sessions[p].seen = 0 /\ IsFilled(sessions[p])

\* the balance sheet that the order of a call leaves when it runs alone
AloneFrom(file, s) ==
    place_market_order(prices_file, file, s.symbol, s.side,
                       ParseFloat(s.amount)).file

\* the balance sheet that the two orders leave when p's runs and then q's
Serial(p, q) ==
    AloneFrom(AloneFrom(sessions[p].b, sessions[p]), sessions[q])

\* C12: place_market_order is a read-modify-write of the whole balance
\* record with no isolation: when two calls both read the record before
\* either writes it and both return FILLED, they have read the same record
\* and the persisted sheet is what the later writer's order alone makes of
\* that record, the earlier write being lost.
LaterWriteWins ==
    BothFilledOverlapped
        => /\ sessions[1].b = sessions[2].b
           /\ \E p \in Sessions :
                 /\ sessions[p].nth = 2
                 /\ balance_file = AloneFrom(sessions[p].b, sessions[p])

\* a lost update: both calls returned FILLED and the persisted sheet is the
\* outcome of neither serial order of the two
LostUpdate ==
    /\ BothFilledOverlapped
    /\ balance_file # Serial(1, 2)
    /\ balance_file # Serial(2, 1)

====
